---- MODULE Spec2Model ----
(***************************************************************************)
(* Model of the Jira auto-close bot: the working-day calculator and the    *)
(* time-based eligibility scan of jira_auto_close.py, and the SLA          *)
(* evaluators of test_scripts.py and debug_sla.py.                         *)
(***************************************************************************)
EXTENDS Integers, Sequences, FiniteSets, TLC

VARIABLES
    \* ---- calculate_working_days called on its own ----
    calc_pc,            \* "call" before the call, "done" after it returned
    start_date,         \* argument start_date
    end_date,           \* argument end_date
    working_days,       \* the value returned
    \* ---- find_old_waiting_tickets ----
    scan_pc,            \* "search", "loop" (head of the for loop), "done" (returned)
    days_threshold,     \* argument days_threshold
    tickets,            \* the search result: ticket keys, in result order
    idx,                \* position of the for loop in tickets
    now,                \* datetime.now() taken after the search
    last_status_change, \* local of the latest iteration: None or a datetime
    tickets_to_close,   \* the list returned
    scan_out,           \* per ticket, what the iteration printed for it
    \* ---- the SLA evaluators, run on one ticket ----
    sla_pc,             \* which script runs next: "check", "list", "debug", "done"
    fields,             \* the ticket's attributes, in dir(ticket.fields) order
    check_res,          \* check_sla_breach: what it returned and its locals at exit
    list_res,           \* test_list_closeable_tickets: the ticket's iteration
    debug_res,          \* debug_sla.main: the fields it reported
    \* ---- the reversed scan of one changelog ----
    hist_pc,            \* "scan" before the scan, "done" after it
    changelog,          \* changelog.histories, in the order the tracker returned
    hist_found,         \* last_status_change after the scan
    \* ---- JiraAutoCloseBot.run ----
    run_pc,             \* "start", "find", "close" (head of the close loop), "done"
    dry_run,            \* argument dry_run
    today,              \* datetime.now() taken at the start of run
    close_idx,          \* position of the close loop in tickets_to_close
    closed_count,       \* local closed_count
    closes,             \* the calls of close_ticket made by run, in order
    exit_status,        \* main: 0 while running and on a normal return, 1 after sys.exit(1)
    replied,            \* the tickets moved out of the waiting status since the search
    \* ---- close_ticket called on its own ----
    close_pc,           \* "call" before the call, "done" after it returned
    close_key,          \* argument ticket_key
    comment_text,       \* argument comment_text: TRUE for a text, FALSE for None
    close_env,          \* how the tracker answers each request of the call
    close_res,          \* the value returned and the operations issued
    \* ---- the tracker ----
    calls               \* the operations issued against the tracker, in order

calc_vars == <<calc_pc, start_date, end_date, working_days>>
scan_vars == <<scan_pc, days_threshold, tickets, idx, now, last_status_change,
               tickets_to_close, scan_out>>

sla_vars == <<sla_pc, fields, check_res, list_res, debug_res>>

hist_vars == <<hist_pc, changelog, hist_found>>

run_vars == <<run_pc, dry_run, today, close_idx, closed_count>>

live_vars == <<closes, exit_status, replied>>

close_vars == <<close_pc, close_key, comment_text, close_env, close_res>>

vars == <<calc_vars, scan_vars, sla_vars, hist_vars, run_vars, live_vars,
          close_vars, calls>>

----------------------------------------------------------------------------
(* Bounds of the model.                                                    *)

\* Calendar days are numbered 0..MaxDay; day 0 is a Monday.
MaxDay == 15
\* A time of day is one of the slots 0..MaxTod of a day.
MaxTod == 1
\* A search returns at most MaxTickets tickets.
MaxTickets == 2
\* A changelog holds at most MaxHist history entries.
MaxHist == 2
\* History entries are created on the days 0..MaxHistDay.
MaxHistDay == 2
\* A ticket carries at most MaxFields attributes.
MaxFields == 2
\* A ticket offers at most MaxTransitions transitions.
MaxTransitions == 2

----------------------------------------------------------------------------
(* datetime values: a calendar day and a time of day within it.            *)

Days == 0..MaxDay
Tods == 0..MaxTod
Datetimes == [day : Days, tod : Tods]

\* datetime.weekday(): 0 = Monday ... 6 = Sunday.
weekday(date) == date.day % 7

\* datetime.__lt__: by calendar day, then by time of day.
datetime_lt(a, b) == a.day < b.day \/ (a.day = b.day /\ a.tod < b.tod)

\* date + timedelta(days=1): the next calendar day, the time of day kept.
plus_one_day(date) == [day |-> date.day + 1, tod |-> date.tod]

\* Mutant: Saturday taken for a working day.
is_working_day_sat(date) == weekday(date) < 6

\* JiraAutoCloseBot.is_working_day
is_working_day(date) == weekday(date) < 5

\* The while loop of calculate_working_days, from the loop head.
RECURSIVE working_days_loop(_, _, _)
working_days_loop(current_date, end, count) ==
    IF datetime_lt(current_date, end)
    THEN working_days_loop(plus_one_day(current_date), end,
                           IF is_working_day(current_date) THEN count + 1 ELSE count)
    ELSE count

\* Mutant: the difference of the calendar days instead of the loop.
calculate_working_days_diff(start, end) == end.day - start.day

\* JiraAutoCloseBot.calculate_working_days
calculate_working_days(start, end) == working_days_loop(start, end, 0)

----------------------------------------------------------------------------
(* The changelog of a ticket, as jira.issue(key, expand='changelog')       *)
(* returns it.                                                             *)

\* find_old_waiting_tickets' default status_name.
WaitingStatus == "Waiting for customer"

\* A change item: the field changed and the value it changed to.
ChangeItems ==
    { [field |-> "status",   toString |-> WaitingStatus],
      [field |-> "status",   toString |-> "In Progress"],
      [field |-> "assignee", toString |-> WaitingStatus] }

\* The items of one history entry: one item, or an assignee change
\* followed by a status change.
ItemLists ==
    { <<i>> : i \in ChangeItems } \cup
    { << [field |-> "assignee", toString |-> "bot"],
         [field |-> "status", toString |-> WaitingStatus] >> }

\* history.created: a timestamp string.  A well-formed one carries a
\* calendar day, a time of day and a UTC offset; "malformed" is any string
\* the format '%Y-%m-%dT%H:%M:%S.%f%z' does not match.
MalformedCreated == [malformed |-> TRUE]

CreatedStrings ==
    [day : 0..MaxHistDay, tod : {0}, offset : {"+0300"}] \cup {MalformedCreated}

\* Python's None, and the outcome of a call that raises.
None == [none |-> TRUE]
Raise == [raise |-> TRUE]

Histories == [created : CreatedStrings, items : ItemLists]

SeqsUpTo(S, n) == UNION { [1..k -> S] : k \in 0..n }

Changelogs == SeqsUpTo(Histories, MaxHist)

\* datetime.strptime(created, '%Y-%m-%dT%H:%M:%S.%f%z').replace(tzinfo=None):
\* "raise" for a string the format does not match; otherwise the wall-clock
\* day and time of the string, the offset dropped without conversion.
strptime_naive(created) ==
    IF created = MalformedCreated THEN Raise
    ELSE [day |-> created.day, tod |-> created.tod]

\* for item in history.items: whether some item is a change of 'status' to
\* status_name.
has_status_change(history, status_name) ==
    \E i \in 1..Len(history.items) :
        /\ history.items[i].field = "status"
        /\ history.items[i].toString = status_name

\* for history in reversed(changelog.histories), from position n down:
\* None when no entry matches, Raise when the matching entry's timestamp
\* does not parse, else the parsed timestamp of the matching entry.
RECURSIVE scan_histories(_, _, _)
scan_histories(histories, n, status_name) ==
    IF n = 0 THEN None
    ELSE IF has_status_change(histories[n], status_name)
         THEN strptime_naive(histories[n].created)
         ELSE scan_histories(histories, n - 1, status_name)

\* Mutant: a history without a match counts from the first day.
find_last_status_change_epoch(histories, status_name) ==
    IF scan_histories(histories, Len(histories), status_name) = None
    THEN [day |-> 0, tod |-> 0]
    ELSE scan_histories(histories, Len(histories), status_name)

find_last_status_change(histories, status_name) ==
    scan_histories(histories, Len(histories), status_name)

\* What the scan of a fetched changelog can yield, over every changelog the
\* tracker may return.
ScanResults == { find_last_status_change(cl, WaitingStatus) : cl \in Changelogs }

\* JiraAutoCloseBot.find_old_waiting_tickets' default days_threshold.
DefaultDaysThreshold == 5

\* The thresholds a configuration may set.
Thresholds == {1, DefaultDaysThreshold}

\* Mutant: the threshold itself already counts.
exceeds_threshold_ge(days, threshold) == days >= threshold

\* if working_days > days_threshold
exceeds_threshold(days, threshold) == days > threshold

----------------------------------------------------------------------------
(* Strings.  A string is a sequence of words; the operators below do what  *)
(* str.lower() and the substring test `pattern in text` do.                *)

\* str.lower() on one word.
lower_word(w) ==
    CASE w = "Time" -> "time"
      [] w = "TIME" -> "time"
      [] w = "TO" -> "to"
      [] w = "First" -> "first"
      [] w = "Response" -> "response"
      [] w = "RESOLUTION" -> "resolution"
      [] w = "SLA" -> "sla"
      [] w = "Breached" -> "breached"
      [] w = "None" -> "none"
      [] w = "False" -> "false"
      [] w = "True" -> "true"
      [] w = "ongoingCycle" -> "ongoingcycle"
      [] w = "completedCycles" -> "completedcycles"
      [] OTHER -> w

\* str.lower()
str_lower(text) == [i \in 1..Len(text) |-> lower_word(text[i])]

\* The pairs <<p, w>> of distinct words with p a part of w.
SubWords == { <<"breach", "breached">>, <<"customfield", "customfield_">> }

word_in(p, w) == p = w \/ <<p, w>> \in SubWords

\* pattern in text
str_contains(text, pattern) ==
    \E k \in 0..(Len(text) - Len(pattern)) :
        \A j \in 1..Len(pattern) : word_in(pattern[j], text[k + j])

\* text.startswith(prefix), prefix one word
str_startswith(text, prefix) == Len(text) >= 1 /\ text[1] = prefix

----------------------------------------------------------------------------
(* The attributes of ticket.fields and their values.                       *)

\* The 'name' member of a field value: absent, None, or a string.
NoName == [kind |-> "absent", text |-> <<>>]
NoneName == [kind |-> "NoneType", text |-> <<>>]
StrName(t) == [kind |-> "str", text |-> t]

NameFirstResponse == StrName(<<"Time", "to", "first", "response">>)
NameResolution    == StrName(<<"Time", "to", "resolution">>)
NameResolutionUp  == StrName(<<"TIME", "TO", "RESOLUTION">>)
NameCloseAfter    == StrName(<<"Time", "to", "close", "after", "resolution">>)
NameBoth          == StrName(<<"First", "response", "and", "resolution">>)

\* The 'ongoingCycle' member: absent, a string, a dict or a PropertyHolder
\* with a 'breached' member.
NoOngoing        == [kind |-> "absent", breached |-> FALSE]
StrOngoing       == [kind |-> "str", breached |-> FALSE]
OngoingBreached  == [kind |-> "PropertyHolder", breached |-> TRUE]
OngoingRunning   == [kind |-> "dict", breached |-> FALSE]

Ongoings == {NoOngoing, StrOngoing, OngoingBreached, OngoingRunning}

\* The 'completedCycles' member: absent, or a list of cycles; a cycle is a
\* dict whose 'breached' member is absent, False or True.
NoCompleted        == [kind |-> "absent", cycles |-> <<>>]
CompletedList(cs)  == [kind |-> "list", cycles |-> cs]
EmptyCycle         == [breached |-> "absent"]
MetCycle           == [breached |-> "False"]

Completeds == {NoCompleted, CompletedList(<<>>), CompletedList(<<EmptyCycle>>)}

\* A field value: its Python type and, for a dict or a PropertyHolder, its
\* members; text is the content of a str value, or of a dict's 'note' member.
Value(type, name, ongoing, completed, text) ==
    [type |-> type, name |-> name, ongoingCycle |-> ongoing,
     completedCycles |-> completed, text |-> text]

SlaRecord(name, ongoing, completed) ==
    Value("PropertyHolder", name, ongoing, completed, <<>>)

\* The values a ticket attribute takes in the model.
FieldValues ==
    \* SLA records of the three usual names, every cycle combination
    { SlaRecord(n, o, c) :
        n \in {NameFirstResponse, NameResolution, NameCloseAfter},
        o \in Ongoings, c \in Completeds } \cup
    \* completed cycles that met their goal
    { SlaRecord(n, o, CompletedList(<<MetCycle>>)) :
        n \in {NameFirstResponse, NameResolution},
        o \in {NoOngoing, OngoingRunning} } \cup
    \* other names
    { SlaRecord(n, o, NoCompleted) :
        n \in {NoName, NoneName, NameBoth, NameResolutionUp},
        o \in {OngoingBreached} } \cup
    { SlaRecord(n, NoOngoing, CompletedList(<<EmptyCycle>>)) :
        n \in {NoneName, NameBoth, NameResolutionUp} } \cup
    \* values that are no SLA record
    { Value("NoneType", NoName, NoOngoing, NoCompleted, <<>>),
      Value("str", NoName, NoOngoing, NoCompleted, <<"ongoingCycle">>),
      Value("dict", NoName, NoOngoing, NoCompleted, <<>>),
      Value("dict", NameFirstResponse, NoOngoing, NoCompleted,
            <<"ongoingCycle", "paused">>),
      Value("dict", NameResolution, NoOngoing, NoCompleted,
            <<"SLA", "Breached">>) }

\* An attribute of ticket.fields: its identifier and its value.
CustomId == <<"customfield_", "10030">>
SystemId == <<"description">>

Fields ==
    [id : {CustomId}, value : FieldValues] \cup
    { [id |-> SystemId,
       value |-> SlaRecord(NameFirstResponse, OngoingBreached, NoCompleted)] }

\* The breached SLA records of the two required names.
BreachedRequired ==
    { [id |-> CustomId, value |-> SlaRecord(n, OngoingBreached, NoCompleted)] :
        n \in {NameFirstResponse, NameResolution} }

\* The attribute lists of a ticket: every list of up to MaxFields
\* attributes, and the lists of MaxFields breached required records with
\* one further attribute before or after them.
FieldSets ==
    UNION { [1..k -> Fields] : k \in 0..MaxFields } \cup
    { <<f>> \o fs : f \in Fields, fs \in [1..MaxFields -> BreachedRequired] } \cup
    { fs \o <<f>> : f \in Fields, fs \in [1..MaxFields -> BreachedRequired] }

\* hasattr(obj, '__dict__') and to_dict(obj) on a whole field value.
has_dict_attr(value) == value.type = "PropertyHolder"

to_dict(value) ==
    IF has_dict_attr(value) THEN [value EXCEPT !.type = "dict"] ELSE value

\* to_dict(obj) on a member of a field value.
member_to_dict(obj) ==
    IF obj.kind = "PropertyHolder" THEN [obj EXCEPT !.kind = "dict"] ELSE obj

\* bool(value): None and the empty dict are false.
is_truthy(value) ==
    CASE value.type = "NoneType" -> FALSE
      [] value.type = "dict" ->
            \/ value.name.kind # "absent"
            \/ value.ongoingCycle.kind # "absent"
            \/ value.completedCycles.kind # "absent"
            \/ value.text # <<>>
      [] OTHER -> TRUE

\* repr of the 'ongoingCycle' member inside str(dict): a nested
\* PropertyHolder prints as an opaque object.
ongoing_repr(o) ==
    CASE o.kind = "str" -> <<"n/a">>
      [] o.kind = "dict" -> <<"breached", IF o.breached THEN "True" ELSE "False">>
      [] o.kind = "PropertyHolder" -> <<"<PropertyHolder object>">>
      [] OTHER -> <<>>

RECURSIVE cycles_repr(_)
cycles_repr(cs) ==
    IF cs = <<>> THEN <<>>
    ELSE (IF Head(cs).breached = "absent" THEN <<>>
          ELSE <<"breached", Head(cs).breached>>) \o cycles_repr(Tail(cs))

\* str(field_value) of a dict: its keys and the repr of their values.
str_of(value) ==
    (CASE value.name.kind = "absent" -> <<>>
       [] value.name.kind = "NoneType" -> <<"name", "None">>
       [] OTHER -> <<"name">> \o value.name.text)
    \o (IF value.ongoingCycle.kind = "absent" THEN <<>>
        ELSE <<"ongoingCycle">> \o ongoing_repr(value.ongoingCycle))
    \o (IF value.completedCycles.kind = "absent" THEN <<>>
        ELSE <<"completedCycles">> \o cycles_repr(value.completedCycles.cycles))
    \o (IF value.text = <<>> THEN <<>> ELSE <<"note">> \o value.text)

\* 'ongoingCycle' in str(field_value) or 'completedCycles' in str(field_value)
has_sla_marker(value) ==
    \/ str_contains(str_of(value), <<"ongoingCycle">>)
    \/ str_contains(str_of(value), <<"completedCycles">>)

\* Mutant: a schema lookup of the two keys instead of the substring search
\* over str(field_value).
check_detects_by_key(f) ==
    /\ str_contains(f.id, <<"customfield">>)
    /\ LET field_value == to_dict(f.value)
       IN  /\ is_truthy(field_value)
           /\ field_value.type = "dict"
           /\ \/ field_value.ongoingCycle.kind # "absent"
              \/ field_value.completedCycles.kind # "absent"

\* check_sla_breach, lines 61-73: whether the attribute is appended to
\* sla_fields.
check_detects(f) ==
    /\ str_contains(f.id, <<"customfield">>)
    /\ LET field_value == to_dict(f.value)
       IN  /\ is_truthy(field_value)
           /\ field_value.type = "dict"
           /\ has_sla_marker(field_value)

\* test_list_closeable_tickets, lines 547-557.
list_detects(f) ==
    /\ str_contains(f.id, <<"customfield">>)
    /\ LET field_value == to_dict(f.value)
       IN  /\ is_truthy(field_value)
           /\ field_value.type = "dict"
           /\ has_sla_marker(field_value)

\* debug_sla.main, lines 73-88: whether the attribute is printed as a
\* potential SLA field.
debug_detects(f) ==
    /\ str_startswith(f.id, "customfield_")
    /\ LET field_value == to_dict(f.value)
       IN  /\ is_truthy(field_value)
           /\ field_value.type = "dict"
           /\ \/ has_sla_marker(field_value)
              \/ str_contains(str_lower(str_of(field_value)), <<"breach">>)

\* The positions i >= from, in order, at which selected[i] holds: the list
\* a detection loop builds by appending.
RECURSIVE positions_from(_, _)
positions_from(selected, from) ==
    IF from > Len(selected) THEN <<>>
    ELSE (IF selected[from] THEN <<from>> ELSE <<>>)
            \o positions_from(selected, from + 1)

\* The sla_fields of check_sla_breach, of the listing, and the fields
\* debug_sla prints, as positions of fs.
check_sla_fields(fs) ==
    positions_from([i \in 1..Len(fs) |-> check_detects(fs[i])], 1)

list_sla_fields(fs) ==
    positions_from([i \in 1..Len(fs) |-> list_detects(fs[i])], 1)

debug_sla_fields(fs) ==
    positions_from([i \in 1..Len(fs) |-> debug_detects(fs[i])], 1)

\* sla_name = field_value.get('name', field_name)
sla_name_of(f) ==
    IF f.value.name.kind = "absent" THEN StrName(f.id) ELSE f.value.name

\* bool() of an 'ongoingCycle' member (absent stands for the default {}).
ongoing_truthy(o) == o.kind # "absent"

\* bool() of a 'completedCycles' member (absent stands for the default []).
completed_truthy(c) == c.kind = "list" /\ c.cycles # <<>>

\* Mutant: a completed cycle counts as a breach only when its own breached
\* flag is set.
check_is_breached_own_flag(value) ==
    LET ongoing == member_to_dict(value.ongoingCycle)
    IN  IF ongoing.kind = "dict"
        THEN ongoing.breached
        ELSE \E k \in 1..Len(value.completedCycles.cycles) :
                value.completedCycles.cycles[k].breached = "True"

\* Mutant: a field with no cycle at all counts as breached.
check_is_breached_no_cycle(value) ==
    LET ongoing == member_to_dict(value.ongoingCycle)
    IN  IF ongoing.kind = "dict" THEN ongoing.breached ELSE TRUE

\* Mutant: any ongoingCycle value that is present counts as a running
\* cycle, a mapping or not.
check_is_breached_any_ongoing(value) ==
    LET ongoing == member_to_dict(value.ongoingCycle)
    IN  IF ongoing.kind = "dict" THEN ongoing.breached
        ELSE IF ongoing_truthy(ongoing) THEN FALSE
        ELSE completed_truthy(value.completedCycles)

\* check_sla_breach, lines 88-120: is_breached of one field.
check_is_breached(value) ==
    LET got == value.ongoingCycle
        ongoing == IF ongoing_truthy(got) THEN member_to_dict(got) ELSE got
        completed == value.completedCycles
    IN  IF ongoing_truthy(ongoing) /\ ongoing.kind = "dict" /\ ongoing.breached = TRUE
        THEN TRUE
        ELSE IF ongoing_truthy(ongoing) /\ ongoing.kind = "dict"
        THEN FALSE
        ELSE IF completed_truthy(completed)
        THEN TRUE
        ELSE FALSE

\* test_list_closeable_tickets, lines 570-586: is_breached of one field.
list_is_breached(value) ==
    LET got == value.ongoingCycle
        ongoing == IF ongoing_truthy(got) THEN member_to_dict(got) ELSE got
        completed == value.completedCycles
    IN  IF ongoing_truthy(ongoing) /\ ongoing.kind = "dict" /\ ongoing.breached = TRUE
        THEN TRUE
        ELSE IF completed_truthy(completed)
        THEN TRUE
        ELSE FALSE

\* Mutant: the "close after" exclusion left out.
check_category_no_exclusion(sla_name_lower) ==
    IF str_contains(sla_name_lower, <<"first", "response">>)
    THEN "first_response"
    ELSE IF str_contains(sla_name_lower, <<"resolution">>)
    THEN "resolution"
    ELSE "other"

\* check_sla_breach, lines 122-130: the category a lower-cased name maps to.
check_category(sla_name_lower) ==
    IF str_contains(sla_name_lower, <<"first", "response">>)
    THEN "first_response"
    ELSE IF /\ str_contains(sla_name_lower, <<"resolution">>)
            /\ ~str_contains(sla_name_lower, <<"close", "after">>)
    THEN "resolution"
    ELSE "other"

\* test_list_closeable_tickets, lines 588-596.
list_category(sla_name_lower) ==
    IF str_contains(sla_name_lower, <<"first", "response">>)
    THEN "first_response"
    ELSE IF /\ str_contains(sla_name_lower, <<"resolution">>)
            /\ ~str_contains(sla_name_lower, <<"close", "after">>)
    THEN "resolution"
    ELSE "other"

\* The locals of an evaluation loop before its first iteration; judged holds
\* is_breached of each field the loop has got through, raised tells that an
\* iteration raised.
LoopStart ==
    [fr_found |-> FALSE, res_found |-> FALSE,
     fr_breached |-> FALSE, res_breached |-> FALSE,
     judged |-> <<>>, raised |-> FALSE]

\* One iteration's effect on the locals: the field's category is marked
\* found, and breached if the field is.
mark(acc, category, is_breached) ==
    LET acc1 == [acc EXCEPT !.judged = Append(@, is_breached)]
    IN  CASE category = "first_response" ->
                [acc1 EXCEPT !.fr_found = TRUE, !.fr_breached = @ \/ is_breached]
          [] category = "resolution" ->
                [acc1 EXCEPT !.res_found = TRUE, !.res_breached = @ \/ is_breached]
          [] OTHER -> acc1

\* check_sla_breach, lines 84-130: the loop over sla_fields from position i.
\* sla_name.lower() raises on a name that is no string.
RECURSIVE check_loop(_, _, _, _)
check_loop(fs, sla_fields, i, acc) ==
    IF i > Len(sla_fields) THEN acc
    ELSE LET f == fs[sla_fields[i]]
             sla_name == sla_name_of(f)
         IN  IF sla_name.kind # "str"
             THEN [acc EXCEPT !.raised = TRUE]
             ELSE check_loop(fs, sla_fields, i + 1,
                             mark(acc, check_category(str_lower(sla_name.text)),
                                  check_is_breached(to_dict(f.value))))

\* test_list_closeable_tickets, lines 566-596.
RECURSIVE list_loop(_, _, _, _)
list_loop(fs, sla_fields, i, acc) ==
    IF i > Len(sla_fields) THEN acc
    ELSE LET f == fs[sla_fields[i]]
             sla_name == sla_name_of(f)
         IN  IF sla_name.kind # "str"
             THEN [acc EXCEPT !.raised = TRUE]
             ELSE list_loop(fs, sla_fields, i + 1,
                            mark(acc, list_category(str_lower(sla_name.text)),
                                 list_is_breached(to_dict(f.value))))

\* Mutant: one breached category is enough, and a missing category is not
\* looked for.
check_sla_breach_any(fs) ==
    LET sla_fields == check_sla_fields(fs)
        acc == check_loop(fs, sla_fields, 1, LoopStart)
    IN  [ret |-> ~acc.raised /\ (acc.fr_breached \/ acc.res_breached),
         msg |-> "sla_status", fetch |-> "ok",
         sla_fields |-> sla_fields, acc |-> acc]

\* check_sla_breach: the value returned and the closing message printed, on
\* the attributes fs.
check_sla_breach(fs) ==
    LET sla_fields == check_sla_fields(fs)
        acc == check_loop(fs, sla_fields, 1, LoopStart)
        at_exit == [fetch |-> "ok", sla_fields |-> sla_fields, acc |-> acc]
    IN  IF sla_fields = <<>>
        THEN [ret |-> FALSE, msg |-> "no_sla_fields"] @@ at_exit
        ELSE IF acc.raised
        THEN [ret |-> FALSE, msg |-> "could_not_check"] @@ at_exit
        ELSE IF acc.fr_found /\ acc.res_found
        THEN [ret |-> acc.fr_breached /\ acc.res_breached, msg |-> "sla_status"]
                @@ at_exit
        ELSE [ret |-> FALSE, msg |-> "required_not_found"] @@ at_exit

\* test_list_closeable_tickets, lines 536-605: whether the ticket is
\* appended to closeable_tickets.
list_closeable(fs) ==
    LET sla_fields == list_sla_fields(fs)
        acc == list_loop(fs, sla_fields, 1, LoopStart)
    IN  [closeable |-> /\ ~acc.raised
                       /\ acc.fr_found /\ acc.res_found
                       /\ acc.fr_breached /\ acc.res_breached,
         fetch |-> "ok", sla_fields |-> sla_fields, acc |-> acc]

\* debug_sla.main, lines 72-90: the positions printed as potential SLA fields.
debug_sla(fs) ==
    [fetch |-> "ok", found |-> debug_sla_fields(fs)]

\* Results before a script has run (fetch = "pending"), and after its issue
\* fetch raised.
CheckPending ==
    [ret |-> FALSE, msg |-> "pending", fetch |-> "pending",
     sla_fields |-> <<>>, acc |-> LoopStart]
CheckFetchRaised ==
    [CheckPending EXCEPT !.msg = "could_not_check", !.fetch = "raised"]
ListPending ==
    [closeable |-> FALSE, fetch |-> "pending", sla_fields |-> <<>>, acc |-> LoopStart]
ListFetchRaised == [ListPending EXCEPT !.fetch = "raised"]
DebugPending == [fetch |-> "pending", found |-> <<>>]
DebugCrashed == [fetch |-> "raised", found |-> <<>>]

----------------------------------------------------------------------------
(* Specification SpecCalc: calculate_working_days on arbitrary arguments.  *)

\* Mutant: every ticket evaluated gets a working-days line.
OutOf_always_days(found) ==
    [fetch |-> "ok", found |-> found, out |-> "days"]

\* What an iteration of the for loop left for a ticket: whether its fetch
\* returned, what the reversed scan found, and what was printed ("days" the
\* working-days line, "error" the error lines, "silent" nothing).
OutPending == [fetch |-> "pending", found |-> None, out |-> "pending"]
OutFetchRaised == [fetch |-> "raised", found |-> None, out |-> "error"]
OutOf(found) ==
    [fetch |-> "ok", found |-> found,
     out |-> IF found = Raise THEN "error"
             ELSE IF found = None THEN "silent" ELSE "days"]

\* Mutant: an issue fetch that also assigns the ticket.
Call_assign(op, key) ==
    [op |-> IF op = "issue" THEN "assign_issue" ELSE op, key |-> key]

\* An operation issued against the tracker, on the ticket of the given key
\* (key 0: no single ticket).
Call(op, key) == [op |-> op, key |-> key]

----------------------------------------------------------------------------
(* JiraAutoCloseBot.close_ticket.                                          *)

\* The names of the transitions a ticket may offer.
TransitionNames == {"Close Issue", "Done", "CLOSED", "Resolve Issue"}

\* transition['name'].lower()
transition_name_lower(name) ==
    CASE name = "Close Issue" -> "close issue"
      [] name = "Done" -> "done"
      [] name = "CLOSED" -> "closed"
      [] name = "Resolve Issue" -> "resolve issue"
      [] OTHER -> name

\* The names close_ticket takes for a close transition (line 178).
CloseTransitionNames == {"close", "closed", "close issue", "done"}

\* jira.transitions(ticket): the names offered, in order; the id of a
\* transition is its position.
TransitionLists == SeqsUpTo(TransitionNames, MaxTransitions)

\* How the tracker answers the requests of one call of close_ticket: each
\* request returns ("ok") or raises, the comment POST may also answer with
\* a status other than 200 and 201, and offered is what jira.transitions
\* returns.
CloseEnvs ==
    [fetch : {"ok", "raise"}, assign : {"ok", "raise"},
     comment : {"ok", "status_400", "raise"},
     transitions : {"ok", "raise"}, offered : TransitionLists,
     transition : {"ok", "raise"}]

\* Mutant: the names compared as they are, not lower-cased.
find_close_transition_exact(transitions, from) ==
    IF \E k \in from..Len(transitions) : transitions[k] \in CloseTransitionNames
    THEN CHOOSE k \in from..Len(transitions) :
            /\ transitions[k] \in CloseTransitionNames
            /\ \A j \in from..(k - 1) : transitions[j] \notin CloseTransitionNames
    ELSE 0

\* for transition in transitions: ... break (lines 175-180), from position
\* from: the id of the first transition with a close name, 0 for None.
RECURSIVE find_close_transition(_, _)
find_close_transition(transitions, from) ==
    IF from > Len(transitions) THEN 0
    ELSE IF transition_name_lower(transitions[from]) \in CloseTransitionNames
         THEN from
         ELSE find_close_transition(transitions, from + 1)

\* What a call of close_ticket leaves: the value returned, the operations
\* issued, the id of the transition requested (0: none) and whether the
\* tracker applied it.
CloseResult(ret, issued, id, applied) ==
    [ret |-> ret, issued |-> issued, transition_id |-> id, applied |-> applied]

\* Lines 127-170: the fetch, the assign and the comment, and the lookup of
\* the transitions; a failing assign or comment is printed as a warning.
requests_before_transition(ticket_key, has_comment) ==
    <<Call("issue", ticket_key), Call("assign_issue", ticket_key)>>
    \o (IF has_comment THEN <<Call("comment", ticket_key)>> ELSE <<>>)
    \o <<Call("transitions", ticket_key)>>

\* Lines 172-194: the lookup of the close transition and the transition.
transition_step(ticket_key, env, before) ==
    IF env.transitions = "raise"
    THEN CloseResult(FALSE, before, 0, FALSE)
    ELSE LET close_transition == find_close_transition(env.offered, 1)
         IN  IF close_transition = 0
             THEN CloseResult(FALSE, before, 0, FALSE)
             ELSE CloseResult(env.transition = "ok",
                              Append(before, Call("transition_issue", ticket_key)),
                              close_transition, env.transition = "ok")

\* Mutant: a failing assign or comment gives the ticket up.
close_ticket_strict(ticket_key, has_comment, env) ==
    IF env.fetch = "raise"
    THEN CloseResult(FALSE, <<Call("issue", ticket_key)>>, 0, FALSE)
    ELSE IF env.assign = "raise" \/ (has_comment /\ env.comment # "ok")
    THEN CloseResult(FALSE, <<Call("issue", ticket_key),
                              Call("assign_issue", ticket_key)>>, 0, FALSE)
    ELSE transition_step(ticket_key, env,
                         requests_before_transition(ticket_key, has_comment))

\* JiraAutoCloseBot.close_ticket(ticket_key, comment_text); has_comment
\* tells whether comment_text is a text.
close_ticket(ticket_key, has_comment, env) ==
    IF env.fetch = "raise"
    THEN CloseResult(FALSE, <<Call("issue", ticket_key)>>, 0, FALSE)
    ELSE transition_step(ticket_key, env,
                         requests_before_transition(ticket_key, has_comment))

ClosePending == CloseResult(FALSE, <<>>, 0, FALSE)

\* An answer to every request, with nothing offered.
QuietEnv ==
    [fetch |-> "ok", assign |-> "ok", comment |-> "ok", transitions |-> "ok",
     offered |-> <<>>, transition |-> "ok"]

----------------------------------------------------------------------------

ScanIdle ==
    /\ scan_pc = "done"
    /\ days_threshold = DefaultDaysThreshold
    /\ tickets = <<>>
    /\ idx = 1
    /\ now = [day |-> 0, tod |-> 0]
    /\ last_status_change = None
    /\ tickets_to_close = <<>>
    /\ scan_out = <<>>

HistIdle ==
    /\ hist_pc = "done"
    /\ changelog = <<>>
    /\ hist_found = None

RunIdle ==
    /\ run_pc = "done"
    /\ dry_run = FALSE
    /\ today = [day |-> 0, tod |-> 0]
    /\ close_idx = 1
    /\ closed_count = 0

LiveIdle ==
    /\ closes = <<>>
    /\ exit_status = 0
    /\ replied = {}

CloseIdle ==
    /\ close_pc = "done"
    /\ close_key = 1
    /\ comment_text = FALSE
    /\ close_env = QuietEnv
    /\ close_res = ClosePending

CalcIdle ==
    /\ calc_pc = "done"
    /\ start_date = [day |-> 0, tod |-> 0]
    /\ end_date = [day |-> 0, tod |-> 0]
    /\ working_days = 0

SlaIdle ==
    /\ sla_pc = "done"
    /\ fields = <<>>
    /\ check_res = CheckPending
    /\ list_res = ListPending
    /\ debug_res = DebugPending

CalcInit ==
    /\ calc_pc = "call"
    /\ start_date \in Datetimes
    /\ end_date \in Datetimes
    /\ working_days = 0
    /\ ScanIdle
    /\ SlaIdle
    /\ HistIdle
    /\ RunIdle
    /\ LiveIdle
    /\ CloseIdle
    /\ calls = <<>>

CalcCall ==
    /\ calc_pc = "call"
    /\ working_days' = calculate_working_days(start_date, end_date)
    /\ calc_pc' = "done"
    /\ UNCHANGED <<start_date, end_date, scan_vars, sla_vars, hist_vars, live_vars, close_vars, run_vars, calls>>

CalcNext == CalcCall

SpecCalc == CalcInit /\ [][CalcNext]_vars

----------------------------------------------------------------------------
(* Specification Spec: one call of find_old_waiting_tickets.               *)

ScanInit ==
    /\ scan_pc = "search"
    /\ days_threshold \in Thresholds
    /\ tickets = <<>>
    /\ idx = 1
    /\ now = [day |-> 0, tod |-> 0]
    /\ last_status_change = None
    /\ tickets_to_close = <<>>
    /\ scan_out = <<>>
    /\ CalcIdle
    /\ SlaIdle
    /\ HistIdle
    /\ RunIdle
    /\ LiveIdle
    /\ CloseIdle
    /\ calls = <<>>

\* jira.search_issues raises: an empty list is returned.
SearchFails ==
    /\ scan_pc = "search"
    /\ scan_pc' = "done"
    /\ calls' = Append(calls, Call("search_issues", 0))
    /\ UNCHANGED <<days_threshold, tickets, idx, now, last_status_change,
                   tickets_to_close, scan_out, calc_vars, sla_vars, hist_vars, live_vars, close_vars, run_vars>>

\* jira.search_issues returns n tickets, keyed 1..n in result order;
\* tickets_to_close = [] and now = datetime.now().
SearchReturns ==
    /\ scan_pc = "search"
    /\ \E n \in 0..MaxTickets :
          /\ tickets' = [i \in 1..n |-> i]
          /\ scan_out' = [i \in 1..n |-> OutPending]
    /\ \E t \in Datetimes : now' = t
    /\ idx' = 1
    /\ tickets_to_close' = <<>>
    /\ scan_pc' = "loop"
    /\ calls' = Append(calls, Call("search_issues", 0))
    /\ UNCHANGED <<days_threshold, last_status_change, calc_vars, sla_vars, hist_vars, live_vars, close_vars, run_vars>>

\* The for loop is exhausted: return tickets_to_close.
ScanReturn ==
    /\ scan_pc = "loop"
    /\ idx > Len(tickets)
    /\ scan_pc' = "done"
    /\ UNCHANGED <<days_threshold, tickets, idx, now, last_status_change,
                   tickets_to_close, scan_out, calc_vars, sla_vars, hist_vars, live_vars, close_vars,
                   run_vars, calls>>

\* Mutant: the error of one ticket ends the for loop.
ProcessTicketFetchFails_abort ==
    /\ scan_pc = "loop"
    /\ idx <= Len(tickets)
    /\ scan_out' = [scan_out EXCEPT ![idx] = OutFetchRaised]
    /\ last_status_change' = None
    /\ idx' = idx + 1
    /\ scan_pc' = "done"
    /\ calls' = Append(calls, Call("issue", tickets[idx]))
    /\ UNCHANGED <<days_threshold, tickets, now, tickets_to_close, calc_vars, sla_vars, hist_vars, live_vars, close_vars, run_vars>>

\* One iteration whose jira.issue(ticket.key, expand='changelog') raises:
\* the except branch prints the error and continues.
ProcessTicketFetchFails ==
    /\ scan_pc = "loop"
    /\ idx <= Len(tickets)
    /\ scan_out' = [scan_out EXCEPT ![idx] = OutFetchRaised]
    /\ last_status_change' = None
    /\ idx' = idx + 1
    /\ calls' = Append(calls, Call("issue", tickets[idx]))
    /\ UNCHANGED <<scan_pc, days_threshold, tickets, now, tickets_to_close, calc_vars, sla_vars, hist_vars, live_vars, close_vars, run_vars>>

\* One iteration after the fetch returned; found is the result of the
\* reversed scan over the histories of the changelog fetched.
ProcessFound(found) ==
    /\ scan_pc = "loop"
    /\ idx <= Len(tickets)
    /\ LET days == calculate_working_days(found, now)
       IN  /\ scan_out' = [scan_out EXCEPT ![idx] = OutOf(found)]
           /\ IF found = Raise \/ found = None
              THEN \* strptime raised (the except branch), or
                   \* 'if last_status_change' is false
                   /\ last_status_change' = None
                   /\ UNCHANGED tickets_to_close
              ELSE /\ last_status_change' = found
                   /\ tickets_to_close' =
                         IF exceeds_threshold(days, days_threshold)
                         THEN Append(tickets_to_close,
                                     [ticket |-> tickets[idx], days |-> days,
                                      status_changed |-> found])
                         ELSE tickets_to_close
    /\ idx' = idx + 1
    /\ calls' = Append(calls, Call("issue", tickets[idx]))
    /\ UNCHANGED <<scan_pc, days_threshold, tickets, now, calc_vars, sla_vars, hist_vars, live_vars, close_vars, run_vars>>

\* One iteration on any changelog the tracker may return.
ProcessTicket == \E found \in ScanResults : ProcessFound(found)

ScanNext ==
    \/ SearchFails
    \/ SearchReturns
    \/ ProcessTicketFetchFails
    \/ ProcessTicket
    \/ ScanReturn

Spec == ScanInit /\ [][ScanNext]_vars

----------------------------------------------------------------------------
(* Specification SpecHist: the reversed scan of find_old_waiting_tickets   *)
(* over one changelog, whatever the tracker returned.                      *)

HistInit ==
    /\ hist_pc = "scan"
    /\ changelog \in Changelogs
    /\ hist_found = None
    /\ CalcIdle
    /\ ScanIdle
    /\ SlaIdle
    /\ RunIdle
    /\ LiveIdle
    /\ CloseIdle
    /\ calls = <<>>

\* for history in reversed(changelog.histories): ... (lines 84-95)
HistScan ==
    /\ hist_pc = "scan"
    /\ hist_found' = find_last_status_change(changelog, WaitingStatus)
    /\ hist_pc' = "done"
    /\ UNCHANGED <<changelog, calc_vars, scan_vars, sla_vars, run_vars, live_vars,
                   close_vars, calls>>

HistNext == HistScan

SpecHist == HistInit /\ [][HistNext]_vars

----------------------------------------------------------------------------
(* Specification SpecSla: check_sla_breach, the closeable-ticket listing   *)
(* and debug_sla, run one after the other on the same ticket; the ticket  *)
(* is followed until a script's issue fetch raises.                        *)

SlaInit ==
    /\ sla_pc = "check"
    /\ fields \in FieldSets
    /\ check_res = CheckPending
    /\ list_res = ListPending
    /\ debug_res = DebugPending
    /\ CalcIdle
    /\ ScanIdle
    /\ HistIdle
    /\ RunIdle
    /\ LiveIdle
    /\ CloseIdle
    /\ calls = <<>>

\* Mutant: the two policies merged into one rule, the SLA decision also
\* asking for the time-based eligibility.
CheckSlaBreach_merged ==
    /\ sla_pc = "check"
    /\ check_res' = [check_sla_breach(fields) EXCEPT
                        !.ret = @ /\ tickets_to_close # <<>>]
    /\ sla_pc' = "list"
    /\ calls' = Append(calls, Call("issue", 1))
    /\ UNCHANGED <<fields, list_res, debug_res, calc_vars, scan_vars, hist_vars, live_vars, close_vars, run_vars>>

\* check_sla_breach(jira, ticket) on the fetched ticket.
CheckSlaBreach ==
    /\ sla_pc = "check"
    /\ check_res' = check_sla_breach(fields)
    /\ sla_pc' = "list"
    /\ calls' = Append(calls, Call("issue", 1))
    /\ UNCHANGED <<fields, list_res, debug_res, calc_vars, scan_vars, hist_vars, live_vars, close_vars, run_vars>>

\* check_sla_breach whose jira.issue raises: the except branch returns False.
CheckSlaBreachFetchFails ==
    /\ sla_pc = "check"
    /\ check_res' = CheckFetchRaised
    /\ sla_pc' = "done"
    /\ calls' = Append(calls, Call("issue", 1))
    /\ UNCHANGED <<fields, list_res, debug_res, calc_vars, scan_vars, hist_vars, live_vars, close_vars, run_vars>>

\* The iteration of test_list_closeable_tickets on the ticket.
ListCloseable ==
    /\ sla_pc = "list"
    /\ list_res' = list_closeable(fields)
    /\ sla_pc' = "debug"
    /\ calls' = Append(calls, Call("issue", 1))
    /\ UNCHANGED <<fields, check_res, debug_res, calc_vars, scan_vars, hist_vars, live_vars, close_vars, run_vars>>

\* The iteration whose jira.issue raises: the ticket is skipped.
ListCloseableFetchFails ==
    /\ sla_pc = "list"
    /\ list_res' = ListFetchRaised
    /\ sla_pc' = "done"
    /\ calls' = Append(calls, Call("issue", 1))
    /\ UNCHANGED <<fields, check_res, debug_res, calc_vars, scan_vars, hist_vars, live_vars, close_vars, run_vars>>

\* debug_sla.main on the ticket.
DebugSla ==
    /\ sla_pc = "debug"
    /\ debug_res' = debug_sla(fields)
    /\ sla_pc' = "done"
    /\ calls' = Append(calls, Call("issue", 1))
    /\ UNCHANGED <<fields, check_res, list_res, calc_vars, scan_vars, hist_vars, live_vars, close_vars, run_vars>>

\* debug_sla.main whose jira.issue raises: nothing catches it.
DebugSlaFetchFails ==
    /\ sla_pc = "debug"
    /\ debug_res' = DebugCrashed
    /\ sla_pc' = "done"
    /\ calls' = Append(calls, Call("issue", 1))
    /\ UNCHANGED <<fields, check_res, list_res, calc_vars, scan_vars, hist_vars, live_vars, close_vars, run_vars>>

SlaNext ==
    \/ CheckSlaBreach
    \/ CheckSlaBreachFetchFails
    \/ ListCloseable
    \/ ListCloseableFetchFails
    \/ DebugSla
    \/ DebugSlaFetchFails

SpecSla == SlaInit /\ [][SlaNext]_vars

----------------------------------------------------------------------------
(* Specification SpecRun: one call of JiraAutoCloseBot.run.                *)

\* The tracker's operations that only read, and those that change a ticket.
ReadOps == {"search_issues", "issue", "transitions"}
MutatingOps == {"assign_issue", "comment", "transition_issue", "create_issue"}

RunInit ==
    /\ run_pc = "start"
    /\ dry_run \in BOOLEAN
    /\ today \in Datetimes
    /\ close_idx = 1
    /\ closed_count = 0
    /\ scan_pc = "search"
    /\ days_threshold \in Thresholds
    /\ tickets = <<>>
    /\ idx = 1
    /\ now = [day |-> 0, tod |-> 0]
    /\ last_status_change = None
    /\ tickets_to_close = <<>>
    /\ scan_out = <<>>
    /\ CalcIdle
    /\ SlaIdle
    /\ HistIdle
    /\ LiveIdle
    /\ CloseIdle
    /\ calls = <<>>

\* Mutant: the weekend test left out.
RunStart_always ==
    /\ run_pc = "start"
    /\ run_pc' = "find"
    /\ UNCHANGED <<dry_run, today, close_idx, closed_count,
                   calc_vars, scan_vars, sla_vars, hist_vars, live_vars, close_vars, calls>>

\* today = datetime.now(); on a weekend run returns at once, else it calls
\* find_old_waiting_tickets.
RunStart ==
    /\ run_pc = "start"
    /\ run_pc' = IF is_working_day(today) THEN "find" ELSE "done"
    /\ UNCHANGED <<dry_run, today, close_idx, closed_count,
                   calc_vars, scan_vars, sla_vars, hist_vars, live_vars, close_vars, calls>>

\* A step of find_old_waiting_tickets(days_threshold) called by run; its
\* datetime.now() is not before today and at most a day later.
RunFind ==
    /\ run_pc = "find"
    /\ ScanNext
    /\ (scan_pc = "search" /\ scan_pc' = "loop")
          => /\ ~datetime_lt(now', today)
             /\ now'.day <= today.day + 1

\* Mutant: the dry_run test left out.
RunReport_live ==
    /\ run_pc = "find"
    /\ scan_pc = "done"
    /\ run_pc' = IF tickets_to_close = <<>> THEN "done" ELSE "close"
    /\ close_idx' = 1
    /\ closed_count' = 0
    /\ UNCHANGED <<dry_run, today, calc_vars, scan_vars, sla_vars, hist_vars, live_vars, close_vars, calls>>

\* find_old_waiting_tickets returned: with nothing to close, or on a dry
\* run after the report, run returns; else the close loop starts.
RunReport ==
    /\ run_pc = "find"
    /\ scan_pc = "done"
    /\ run_pc' = IF tickets_to_close = <<>> \/ dry_run THEN "done" ELSE "close"
    /\ close_idx' = 1
    /\ closed_count' = 0
    /\ UNCHANGED <<dry_run, today, calc_vars, scan_vars, sla_vars, hist_vars, live_vars, close_vars, calls>>

\* The answers of the tracker to the calls of close_ticket that run makes:
\* assign and comment both succeed or both raise, and the ticket offers
\* nothing or the transition "Done".
RunCloseEnvs ==
    { env \in CloseEnvs :
        /\ env.offered \in {<<>>, <<"Done">>}
        /\ env.comment \in {"ok", "raise"}
        /\ env.assign = env.comment }

\* One call of close_ticket by run: the ticket, the value returned, whether
\* the tracker applied a transition, and whether the ticket was still in
\* the waiting status then.
CloseEntry(ticket_key, res) ==
    [ticket |-> ticket_key, ret |-> res.ret, applied |-> res.applied,
     waiting |-> ticket_key \notin replied]

\* Mutant: the first failed close ends the close loop.
RunCloseTicket_stop ==
    /\ run_pc = "close"
    /\ close_idx <= Len(tickets_to_close)
    /\ \E env \in RunCloseEnvs :
         LET ticket_key == tickets_to_close[close_idx].ticket
             res == close_ticket(ticket_key, TRUE, env)
         IN  /\ calls' = calls \o res.issued
             /\ closed_count' = IF res.ret THEN closed_count + 1 ELSE closed_count
             /\ closes' = Append(closes, CloseEntry(ticket_key, res))
             /\ close_idx' = IF res.ret THEN close_idx + 1
                             ELSE Len(tickets_to_close) + 1
    /\ UNCHANGED <<run_pc, dry_run, today, exit_status, replied,
                   calc_vars, scan_vars, sla_vars, hist_vars, close_vars>>

\* One iteration of the close loop: close_ticket(ticket.key, comment) on the
\* next item, counted when it returns True.
RunCloseTicket ==
    /\ run_pc = "close"
    /\ close_idx <= Len(tickets_to_close)
    /\ \E env \in RunCloseEnvs :
         LET ticket_key == tickets_to_close[close_idx].ticket
             res == close_ticket(ticket_key, TRUE, env)
         IN  /\ calls' = calls \o res.issued
             /\ closed_count' = IF res.ret THEN closed_count + 1 ELSE closed_count
             /\ closes' = Append(closes, CloseEntry(ticket_key, res))
    /\ close_idx' = close_idx + 1
    /\ UNCHANGED <<run_pc, dry_run, today, exit_status, replied,
                   calc_vars, scan_vars, sla_vars, hist_vars, close_vars>>

\* The close loop is exhausted: the summary is printed and run returns.
RunFinish ==
    /\ run_pc = "close"
    /\ close_idx > Len(tickets_to_close)
    /\ run_pc' = "done"
    /\ UNCHANGED <<dry_run, today, close_idx, closed_count,
                   calc_vars, scan_vars, sla_vars, hist_vars, live_vars, close_vars, calls>>

\* A statement of run outside the try blocks of find_old_waiting_tickets
\* and close_ticket raises, and the exception leaves run: a line of the
\* report of a found ticket (its fields.summary, lines 231-236) or the
\* building of the comment of the next ticket (lines 245-252).
RunRaises ==
    /\ \/ run_pc = "find" /\ scan_pc = "done" /\ tickets_to_close # <<>>
       \/ run_pc = "close" /\ close_idx <= Len(tickets_to_close)
    /\ run_pc' = "raised"
    /\ UNCHANGED <<dry_run, today, close_idx, closed_count,
                   calc_vars, scan_vars, sla_vars, hist_vars, live_vars, close_vars, calls>>

\* main, line 344: the name error_message is bound nowhere in the module
\* (the texts built above it are error_summary and error_description).
error_message_defined == FALSE

\* main, lines 309-381: the operations issued by the attempt to file an
\* error ticket.  On a dry run nothing is attempted; else the building of
\* description_adf reads error_message and, the name being unbound, raises
\* before create_issue, into 'except Exception as ticket_error'.
create_error_ticket(is_dry_run) ==
    IF is_dry_run THEN <<>>
    ELSE IF ~error_message_defined THEN <<>>
    ELSE <<Call("create_issue", 0)>>

\* main's handler of an exception of bot.run (lines 296-388): the attempt
\* to file the error ticket, then sys.exit(1).
MainHandleError ==
    /\ run_pc = "raised"
    /\ calls' = calls \o create_error_ticket(dry_run)
    /\ exit_status' = 1
    /\ run_pc' = "exited"
    /\ UNCHANGED <<dry_run, today, close_idx, closed_count, closes, replied,
                   calc_vars, scan_vars, sla_vars, hist_vars, close_vars>>

RunNext ==
    \/ RunStart
    \/ RunFind
    \/ RunReport
    \/ RunCloseTicket
    \/ RunFinish
    \/ RunRaises
    \/ MainHandleError

SpecRun == RunInit /\ [][RunNext]_vars

----------------------------------------------------------------------------
(* Specification SpecRace: a live run on a working day while customers     *)
(* reply: the tracker moves tickets out of the waiting status at any time  *)
(* after the search.                                                       *)

\* The day of the run: the Tuesday of the second week.
RaceToday == [day |-> 8, tod |-> 0]

RaceInit ==
    /\ RunInit
    /\ dry_run = FALSE
    /\ today = RaceToday

\* A customer replies on a ticket of the search result: the tracker moves
\* it out of the waiting status.
CustomerReplies ==
    /\ run_pc \in {"find", "close"}
    /\ \E k \in 1..Len(tickets) :
          /\ k \notin replied
          /\ replied' = replied \cup {k}
    /\ UNCHANGED <<closes, exit_status, calc_vars, scan_vars, sla_vars,
                   hist_vars, run_vars, close_vars, calls>>

RaceNext ==
    \/ RunNext
    \/ CustomerReplies

SpecRace == RaceInit /\ [][RaceNext]_vars

----------------------------------------------------------------------------
(* Specification SpecClose: one call of close_ticket, whatever the tracker *)
(* answers.                                                                *)

CloseInit ==
    /\ close_pc = "call"
    /\ close_key \in 1..MaxTickets
    /\ comment_text \in BOOLEAN
    /\ close_env \in CloseEnvs
    /\ close_res = ClosePending
    /\ CalcIdle
    /\ ScanIdle
    /\ SlaIdle
    /\ HistIdle
    /\ RunIdle
    /\ LiveIdle
    /\ calls = <<>>

CloseCall ==
    /\ close_pc = "call"
    /\ close_res' = close_ticket(close_key, comment_text, close_env)
    /\ calls' = calls \o close_ticket(close_key, comment_text, close_env).issued
    /\ close_pc' = "done"
    /\ UNCHANGED <<close_key, comment_text, close_env, calc_vars, scan_vars,
                   sla_vars, hist_vars, run_vars, live_vars>>

CloseNext == CloseCall

SpecClose == CloseInit /\ [][CloseNext]_vars

----------------------------------------------------------------------------
(* Specification SpecTicket: one ticket in the waiting status, with its    *)
(* changelog and its attributes, evaluated by the iteration of             *)
(* find_old_waiting_tickets, by check_sla_breach and by the listing, in    *)
(* any order.                                                              *)

\* The changelogs of the ticket: no entry or one.
TicketChangelogs == SeqsUpTo(Histories, 1)

\* The attribute lists of the ticket: none, or breached required records.
TicketFieldLists ==
    UNION { [1..k -> BreachedRequired] : k \in 0..MaxFields }

\* The values of datetime.now(): the start of a day.
TicketNows == { [day |-> d, tod |-> 0] : d \in Days }

TicketInit ==
    /\ scan_pc = "search"
    /\ days_threshold \in Thresholds
    /\ tickets = <<>>
    /\ idx = 1
    /\ now = [day |-> 0, tod |-> 0]
    /\ last_status_change = None
    /\ tickets_to_close = <<>>
    /\ scan_out = <<>>
    /\ hist_pc = "done"
    /\ changelog \in TicketChangelogs
    /\ hist_found = None
    /\ sla_pc = "check"
    /\ fields \in TicketFieldLists
    /\ check_res = CheckPending
    /\ list_res = ListPending
    /\ debug_res = DebugPending
    /\ CalcIdle
    /\ RunIdle
    /\ LiveIdle
    /\ CloseIdle
    /\ calls = <<>>

\* The search of find_old_waiting_tickets returns the ticket.
TicketSearch ==
    /\ SearchReturns
    /\ Len(tickets') = 1
    /\ now' \in TicketNows

\* The iteration of find_old_waiting_tickets on the ticket, its changelog
\* fetched.
TicketTime == ProcessFound(find_last_status_change(changelog, WaitingStatus))

TicketNext ==
    \/ TicketSearch
    \/ TicketTime
    \/ ProcessTicketFetchFails
    \/ ScanReturn
    \/ CheckSlaBreach
    \/ CheckSlaBreachFetchFails
    \/ ListCloseable
    \/ ListCloseableFetchFails
    \/ DebugSla
    \/ DebugSlaFetchFails

SpecTicket == TicketInit /\ [][TicketNext]_vars

----------------------------------------------------------------------------
(* Claims about the working-day calculator (SpecCalc).                     *)

\* The calendar date of a datetime: the same day at time-of-day slot 0.
date_of(dt) == [day |-> dt.day, tod |-> 0]

\* The number of calendar days d with s <= d < e that are Monday..Friday.
WorkingDatesIn(s, e) == Cardinality({ d \in s..(e - 1) : d % 7 \in 0..4 })

\* C2: for calendar dates start <= end, calculate_working_days returns the
\* number of Monday..Friday dates in the half-open interval [start, end);
\* Friday -> the following Monday gives 1 and Monday -> Monday k weeks later
\* gives 5 * k.
C2_HalfOpenCount ==
    (/\ calc_pc = "done"
     /\ start_date = date_of(start_date)
     /\ end_date = date_of(end_date)
     /\ start_date.day <= end_date.day)
    => /\ working_days = WorkingDatesIn(start_date.day, end_date.day)
       /\ (weekday(start_date) = 4 /\ end_date.day = start_date.day + 3)
             => working_days = 1
       /\ (weekday(start_date) = 0 /\ (end_date.day - start_date.day) % 7 = 0)
             => working_days = 5 * ((end_date.day - start_date.day) \div 7)

\* C2 witness: Monday to the Monday two weeks later has returned 10.
C2_Witness ==
    /\ calc_pc = "done"
    /\ start_date = [day |-> 0, tod |-> 0]
    /\ end_date = [day |-> 14, tod |-> 0]
    /\ working_days = 10

\* C3: the count depends only on the calendar dates of the two timestamps:
\* it equals the count for the date of start and the date of end, whatever
\* the times of day.
C3_DatesOnly ==
    calc_pc = "done"
    => working_days = calculate_working_days(date_of(start_date), date_of(end_date))

\* C4: calculate_working_days returns an integer >= 0, which is 0 when
\* start = end and 0 when start is later than end; the call always returns.
C4_NonNegative ==
    /\ calc_pc = "call" => ENABLED CalcCall
    /\ calc_pc = "done"
       => /\ working_days \in Nat
          /\ start_date = end_date => working_days = 0
          /\ datetime_lt(end_date, start_date) => working_days = 0

\* C4 witness: a call with start a week later than end has returned 0.
C4_Witness ==
    /\ calc_pc = "done"
    /\ start_date.day = end_date.day + 7
    /\ working_days = 0

----------------------------------------------------------------------------
(* Claims about find_old_waiting_tickets (Spec).                           *)

InToClose(key) ==
    \E i \in 1..Len(tickets_to_close) : tickets_to_close[i].ticket = key

\* C1: a ticket whose last transition to the waiting status was found and
\* parsed is in the to-close list if and only if
\* calculate_working_days(last_status_change, now) > days_threshold; a count
\* equal to the threshold never makes it eligible, threshold + 1 always does.
C1_TimePolicy ==
    /\ \A i \in 1..Len(tickets_to_close) :
          /\ tickets_to_close[i].days =
                calculate_working_days(tickets_to_close[i].status_changed, now)
          /\ tickets_to_close[i].days > days_threshold
    /\ (scan_pc \in {"loop", "done"} /\ idx > 1 /\ last_status_change # None)
       => LET count == calculate_working_days(last_status_change, now)
          IN  /\ InToClose(tickets[idx - 1]) <=> count > days_threshold
              /\ count = days_threshold => ~InToClose(tickets[idx - 1])
              /\ count = days_threshold + 1 => InToClose(tickets[idx - 1])

\* C1 witness: with threshold 5, the first ticket was listed with 6 working
\* days and the second, with 5, was not.
C1_Witness ==
    /\ scan_pc = "done"
    /\ days_threshold = 5
    /\ Len(tickets) = 2
    /\ Len(tickets_to_close) = 1
    /\ tickets_to_close[1].ticket = 1
    /\ tickets_to_close[1].days = 6
    /\ last_status_change # None
    /\ calculate_working_days(last_status_change, now) = 5

----------------------------------------------------------------------------
(* Claims about the SLA evaluators (SpecSla).                              *)

CheckRan == check_res.fetch = "ok"
ListRan == list_res.fetch = "ok"
DebugRan == debug_res.fetch = "ok"

\* The elements of a sequence.
Range(seq) == { seq[k] : k \in 1..Len(seq) }

\* The name of attribute i as the evaluators read it, lower-cased; <<>> for
\* a name that is no string.
LowerName(i) ==
    IF sla_name_of(fields[i]).kind = "str"
    THEN str_lower(sla_name_of(fields[i]).text)
    ELSE <<>>

MatchesFirstResponse(i) == str_contains(LowerName(i), <<"first", "response">>)
MatchesResolution(i) ==
    /\ str_contains(LowerName(i), <<"resolution">>)
    /\ ~str_contains(LowerName(i), <<"close", "after">>)

\* An ongoing cycle that is a mapping.
HasOngoing(value) == value.ongoingCycle.kind \in {"dict", "PropertyHolder"}
HasCompleted(value) == Len(value.completedCycles.cycles) >= 1

\* The per-field breach determination, rules 1 to 4 of the SLA evaluator.
RuleBreached(value) ==
    IF HasOngoing(value) THEN value.ongoingCycle.breached
    ELSE HasCompleted(value)

\* The final judgment on the detected fields D: both categories have a
\* contributing field (by the evaluators' category mapping) and both are
\* breached (by rules 1 to 4).
Judgment(D) ==
    LET FR  == { i \in D : check_category(LowerName(i)) = "first_response" }
        RES == { i \in D : check_category(LowerName(i)) = "resolution" }
    IN  /\ FR # {} /\ RES # {}
        /\ \E i \in FR : RuleBreached(fields[i].value)
        /\ \E i \in RES : RuleBreached(fields[i].value)

\* C5: the SLA decision (check_sla_breach returning True, the ticket being
\* listed as closeable) is true if and only if both categories have a
\* contributing field and both categories are breached.
C5_Decision ==
    /\ CheckRan => (check_res.ret <=> Judgment(Range(check_res.sla_fields)))
    /\ ListRan => (list_res.closeable <=> Judgment(Range(list_res.sla_fields)))

\* Some detected field of check_sla_breach contributes to the category.
Contributes(category) ==
    \E i \in Range(check_res.sla_fields) :
        /\ sla_name_of(fields[i]).kind = "str"
        /\ check_category(LowerName(i)) = category

CategoryMissing == ~Contributes("first_response") \/ ~Contributes("resolution")

\* The value check_sla_breach hands back when both categories were found but
\* not both are breached (line 137 with both_breached false).
NotBothBreachedValue == FALSE

\* C6 as claimed: with a category missing, the outcome is reported as
\* missing (a warning is printed) with decision false, and the value handed
\* back differs from the one handed back for 'not both breached'.
C6_Distinguishable ==
    (CheckRan /\ CategoryMissing)
    => /\ check_res.msg \in {"required_not_found", "no_sla_fields", "could_not_check"}
       /\ check_res.ret = FALSE
       /\ check_res.ret # NotBothBreachedValue

\* C6 as amended: with a category missing, check_sla_breach prints a warning
\* (required SLA not found, no SLA fields found, or could not check) and
\* returns False, the same value it returns when both categories were found
\* but not both are breached; the returned value tells the two apart no more.
C6_MissingReturnsFalse ==
    /\ (CheckRan /\ CategoryMissing)
       => /\ check_res.ret = NotBothBreachedValue
          /\ check_res.msg \in {"required_not_found", "no_sla_fields", "could_not_check"}
          /\ (check_res.sla_fields # <<>> /\ ~check_res.acc.raised)
                => check_res.msg = "required_not_found"
    /\ (CheckRan /\ check_res.msg = "sla_status"
              /\ ~(check_res.acc.fr_breached /\ check_res.acc.res_breached))
       => check_res.ret = NotBothBreachedValue

\* C6 witness: check_sla_breach ran on a breached first-response field with
\* no resolution field and warned that a required SLA was not found.
C6_Witness ==
    /\ CheckRan
    /\ Contributes("first_response")
    /\ ~Contributes("resolution")
    /\ check_res.acc.fr_breached
    /\ check_res.msg = "required_not_found"
    /\ check_res.ret = FALSE

\* is_breached as an evaluator computed it for its k-th detected field.
NotBreachedOngoing(value) == HasOngoing(value) /\ ~value.ongoingCycle.breached

\* C7: a field with an ongoing cycle whose breached flag is not true is
\* judged not breached, whatever completed cycles it has, by check_sla_breach
\* and by the closeable-ticket listing.
C7_OngoingNotBreached ==
    /\ \A k \in 1..Len(check_res.acc.judged) :
          NotBreachedOngoing(fields[check_res.sla_fields[k]].value)
            => check_res.acc.judged[k] = FALSE
    /\ \A k \in 1..Len(list_res.acc.judged) :
          NotBreachedOngoing(fields[list_res.sla_fields[k]].value)
            => list_res.acc.judged[k] = FALSE

CompletedOnly(value) ==
    value.ongoingCycle.kind = "absent" /\ HasCompleted(value)

\* C8: a field with no ongoing cycle and one or more completed cycles is
\* judged breached by both evaluators, whatever the cycles' own breached
\* flags and shape, and marks its category breached.
C8_CompletedIsBreached ==
    /\ \A k \in 1..Len(check_res.acc.judged) :
          LET i == check_res.sla_fields[k]
          IN  CompletedOnly(fields[i].value)
              => /\ check_res.acc.judged[k] = TRUE
                 /\ check_category(LowerName(i)) = "first_response"
                       => check_res.acc.fr_breached
                 /\ check_category(LowerName(i)) = "resolution"
                       => check_res.acc.res_breached
    /\ \A k \in 1..Len(list_res.acc.judged) :
          LET i == list_res.sla_fields[k]
          IN  CompletedOnly(fields[i].value)
              => /\ list_res.acc.judged[k] = TRUE
                 /\ list_category(LowerName(i)) = "first_response"
                       => list_res.acc.fr_breached
                 /\ list_category(LowerName(i)) = "resolution"
                       => list_res.acc.res_breached

\* C8 witness: both evaluators judged a resolution field whose only cycle is
\* a completed one with breached = False, and marked resolution breached.
C8_Witness ==
    /\ CheckRan /\ ListRan
    /\ \E k \in 1..Len(list_res.acc.judged) :
          LET v == fields[list_res.sla_fields[k]].value
          IN  /\ v.name = NameResolution
              /\ v.ongoingCycle.kind = "absent"
              /\ v.completedCycles.cycles = <<MetCycle>>
              /\ list_res.acc.judged[k] = TRUE
    /\ check_res.acc.res_breached
    /\ list_res.acc.res_breached

\* The category flags an evaluation loop left, against the names of the
\* fields it got through: every name containing "first response" contributes
\* to first response, every name containing "resolution" and not "close
\* after" contributes to resolution, and nothing else contributes.
MappingHolds(sla_fields, acc) ==
    LET J == { sla_fields[k] : k \in 1..Len(acc.judged) }
    IN  /\ acc.fr_found  <=> \E i \in J : MatchesFirstResponse(i)
        /\ acc.res_found <=> \E i \in J : MatchesResolution(i)

\* C9: case-insensitively, a name containing "first response" contributes to
\* the first-response category, and every name containing "resolution" and
\* not "close after" contributes to the resolution category, also one that
\* contains "first response" as well; "Time to close after resolution" and a
\* name matching neither pattern contribute to no category.
C9_CategoryMapping ==
    /\ MappingHolds(check_res.sla_fields, check_res.acc)
    /\ MappingHolds(list_res.sla_fields, list_res.acc)

\* The flags against the names with the first match winning: a name that
\* contains "first response" contributes to first response only.
FirstMatchHolds(sla_fields, acc) ==
    LET J == { sla_fields[k] : k \in 1..Len(acc.judged) }
    IN  /\ acc.fr_found  <=> \E i \in J : MatchesFirstResponse(i)
        /\ acc.res_found <=> \E i \in J : MatchesResolution(i)
                                            /\ ~MatchesFirstResponse(i)

\* C9 as amended: case-insensitively, a name containing "first response"
\* contributes to the first-response category and to no other; a name
\* containing "resolution", not "close after" and not "first response"
\* contributes to the resolution category; "Time to close after resolution"
\* and a name matching neither pattern contribute to no category.
C9_FirstMatchMapping ==
    /\ FirstMatchHolds(check_res.sla_fields, check_res.acc)
    /\ FirstMatchHolds(list_res.sla_fields, list_res.acc)

\* C9 witness: both evaluators got through a field named "First response
\* and resolution" and one named "Time to close after resolution", and
\* found the first-response category alone.
C9_Witness ==
    /\ CheckRan /\ ListRan
    /\ Len(fields) = 2
    /\ fields[1].value.name = NameBoth
    /\ fields[2].value.name = NameCloseAfter
    /\ Len(check_res.acc.judged) = 2 /\ Len(list_res.acc.judged) = 2
    /\ check_res.acc.fr_found /\ ~check_res.acc.res_found
    /\ list_res.acc.fr_found /\ ~list_res.acc.res_found

\* The serialized representation of a value holds one of the two markers.
SerializedHasMarker(value) ==
    IF value.type \in {"dict", "PropertyHolder"}
    THEN has_sla_marker(to_dict(value))
    ELSE \/ str_contains(value.text, <<"ongoingCycle">>)
         \/ str_contains(value.text, <<"completedCycles">>)

Marked == { i \in 1..Len(fields) : SerializedHasMarker(fields[i].value) }

\* C10 as claimed: a field is detected if and only if its serialized
\* representation contains "ongoingCycle" or "completedCycles", nothing else
\* adding or removing a field, and all components detect the same set.
C10_MarkerOnly ==
    /\ CheckRan => Range(check_res.sla_fields) = Marked
    /\ ListRan => Range(list_res.sla_fields) = Marked
    /\ DebugRan => Range(debug_res.found) = Marked

\* A custom field whose value, a PropertyHolder taken as its dict, is a
\* non-empty dict.
CustomDict(i) ==
    /\ fields[i].id[1] = "customfield_"
    /\ fields[i].value.type \in {"dict", "PropertyHolder"}
    /\ \/ fields[i].value.name.kind # "absent"
       \/ fields[i].value.ongoingCycle.kind # "absent"
       \/ fields[i].value.completedCycles.kind # "absent"
       \/ fields[i].value.text # <<>>

\* The words of a value's 'note' member, and of its string members, hold
\* "breach" in some letter case.
MentionsBreach(value) ==
    \E w \in Range(str_of(to_dict(value))) :
        lower_word(w) \in {"breach", "breached"}

\* C10 as amended: check_sla_breach and the listing detect the same fields,
\* the custom fields whose value is a non-empty dict with a marker in its
\* string; debug_sla reports these and the custom non-empty dicts whose
\* lower-cased string contains "breach".
C10_Detection ==
    LET Sla == { i \in 1..Len(fields) : CustomDict(i) /\ i \in Marked }
        Potential == { i \in 1..Len(fields) :
                         CustomDict(i) /\ (i \in Marked
                                             \/ MentionsBreach(fields[i].value)) }
    IN  /\ CheckRan => Range(check_res.sla_fields) = Sla
        /\ ListRan => Range(list_res.sla_fields) = Sla
        /\ DebugRan => Range(debug_res.found) = Potential

\* C10 witness: the three scripts ran on a ticket with a dict that carries
\* the marker only inside a note, detected by all three, and a dict that
\* mentions a breach, reported by debug_sla alone.
C10_Witness ==
    /\ CheckRan /\ ListRan /\ DebugRan
    /\ Len(fields) = 2
    /\ fields[1].value.text = <<"ongoingCycle", "paused">>
    /\ fields[2].value.text = <<"SLA", "Breached">>
    /\ check_res.sla_fields = <<1>>
    /\ list_res.sla_fields = <<1>>
    /\ debug_res.found = <<1, 2>>

\* The attributes fs with the one at position k taken away.
Without(fs, k) == SubSeq(fs, 1, k - 1) \o SubSeq(fs, k + 1, Len(fs))

\* An attribute check_sla_breach detects, with a string name, that has
\* neither an ongoing cycle nor any completed cycle.
NoCycleField(f) ==
    /\ check_detects(f)
    /\ sla_name_of(f).kind = "str"
    /\ f.value.ongoingCycle.kind = "absent"
    /\ ~HasCompleted(f.value)

\* C11 as claimed: a detected field with neither an ongoing cycle nor any
\* completed cycle marks no category found and none breached: what
\* check_sla_breach returns and reports, the missing-category warning
\* included, is what it returns and reports without the field.
C11_NoSignal ==
    CheckRan =>
      \A k \in 1..Len(fields) :
        NoCycleField(fields[k]) =>
          LET rest == check_sla_breach(Without(fields, k))
          IN  /\ check_res.ret = rest.ret
              /\ check_res.msg = rest.msg
              /\ check_res.acc.fr_found = rest.acc.fr_found
              /\ check_res.acc.res_found = rest.acc.res_found

\* C11 as amended: such a field marks no category breached, and the
\* decision of check_sla_breach and of the listing is the one made without
\* the field; the field does mark the category of its name as found.
C11_NoBreachSignal ==
    /\ CheckRan =>
         \A k \in 1..Len(fields) :
           NoCycleField(fields[k]) =>
             LET rest == check_sla_breach(Without(fields, k))
             IN  /\ check_res.ret = rest.ret
                 /\ check_res.acc.fr_breached = rest.acc.fr_breached
                 /\ check_res.acc.res_breached = rest.acc.res_breached
                 /\ (~check_res.acc.raised /\ MatchesFirstResponse(k))
                       => check_res.acc.fr_found
                 /\ (~check_res.acc.raised /\ ~MatchesFirstResponse(k)
                        /\ MatchesResolution(k))
                       => check_res.acc.res_found
    /\ ListRan =>
         \A k \in 1..Len(fields) :
           NoCycleField(fields[k]) =>
             LET rest == list_closeable(Without(fields, k))
             IN  /\ list_res.closeable = rest.closeable
                 /\ list_res.acc.fr_breached = rest.acc.fr_breached
                 /\ list_res.acc.res_breached = rest.acc.res_breached

\* C11 witness: check_sla_breach ran on a first-response field whose only
\* member is an empty completedCycles list and on a breached resolution
\* field; it found both categories and returned False.
C11_Witness ==
    /\ CheckRan
    /\ Len(fields) = 2
    /\ NoCycleField(fields[1])
    /\ fields[1].value.name = NameFirstResponse
    /\ fields[2].value.name = NameResolution
    /\ check_res.acc.fr_found /\ ~check_res.acc.fr_breached
    /\ check_res.acc.res_breached
    /\ check_res.msg = "sla_status"
    /\ check_res.ret = FALSE

\* An ongoingCycle value that is present and is no mapping.
MalformedOngoing(value) == value.ongoingCycle.kind = "str"

\* Every detected field of the evaluation has a string name.
AllNamesStr(sla_fields) ==
    \A k \in 1..Len(sla_fields) : sla_name_of(fields[sla_fields[k]]).kind = "str"

\* C12 as claimed: a field whose ongoingCycle is no mapping does not make
\* the evaluation raise and is judged not breached, whatever else it
\* contains, a non-empty completedCycles list included.
C12_MalformedNoSignal ==
    /\ (CheckRan /\ AllNamesStr(check_res.sla_fields)) => ~check_res.acc.raised
    /\ \A k \in 1..Len(check_res.acc.judged) :
          MalformedOngoing(fields[check_res.sla_fields[k]].value)
            => check_res.acc.judged[k] = FALSE

\* C12 as amended: a field whose ongoingCycle is no mapping does not make
\* the evaluation raise and is judged as if it had no ongoing cycle:
\* breached exactly when its completedCycles list is non-empty.
C12_MalformedAsAbsent ==
    /\ (CheckRan /\ AllNamesStr(check_res.sla_fields))
          => /\ ~check_res.acc.raised
             /\ Len(check_res.acc.judged) = Len(check_res.sla_fields)
    /\ (ListRan /\ AllNamesStr(list_res.sla_fields))
          => /\ ~list_res.acc.raised
             /\ Len(list_res.acc.judged) = Len(list_res.sla_fields)
    /\ \A k \in 1..Len(check_res.acc.judged) :
          LET v == fields[check_res.sla_fields[k]].value
          IN  MalformedOngoing(v) => (check_res.acc.judged[k] <=> HasCompleted(v))
    /\ \A k \in 1..Len(list_res.acc.judged) :
          LET v == fields[list_res.sla_fields[k]].value
          IN  MalformedOngoing(v) => (list_res.acc.judged[k] <=> HasCompleted(v))

\* C12 witness: check_sla_breach judged a resolution field whose
\* ongoingCycle is a string and whose completedCycles list is non-empty, as
\* breached, and a first-response field with a string ongoingCycle alone as
\* not breached.
C12_Witness ==
    /\ CheckRan
    /\ Len(check_res.acc.judged) = 2
    /\ fields[1].value.name = NameResolution
    /\ MalformedOngoing(fields[1].value) /\ HasCompleted(fields[1].value)
    /\ fields[2].value.name = NameFirstResponse
    /\ MalformedOngoing(fields[2].value) /\ ~HasCompleted(fields[2].value)
    /\ check_res.acc.judged = <<TRUE, FALSE>>
    /\ check_res.acc.res_breached /\ ~check_res.acc.fr_breached

\* A detected attribute whose name is present and is no string.
MalformedName(f) == check_detects(f) /\ sla_name_of(f).kind # "str"

\* A detected attribute with a malformed sub-structure: a name that is no
\* string or an ongoingCycle that is no mapping.
MalformedField(f) ==
    check_detects(f) /\ (sla_name_of(f).kind # "str" \/ MalformedOngoing(f.value))

\* C13: one field whose name is no string, added to well-formed fields,
\* leaves the decision of check_sla_breach and of the listing equal to the
\* decision computed from the well-formed fields alone.
C13_NoAbort ==
    \A k \in 1..Len(fields) :
      (/\ MalformedName(fields[k])
       /\ \A j \in 1..Len(fields) : j # k => ~MalformedField(fields[j]))
      => /\ CheckRan =>
              check_res.ret = check_sla_breach(Without(fields, k)).ret
         /\ ListRan =>
              list_res.closeable = list_closeable(Without(fields, k)).closeable

----------------------------------------------------------------------------
(* Claims about the scan of the status history (SpecHist, Spec).           *)

\* The positions of the changelog whose entry holds a change of 'status' to
\* the waiting status.
WaitingEntries == { j \in 1..Len(changelog) : has_status_change(changelog[j], WaitingStatus) }

\* Every timestamp of the changelog is well formed.
AllParse == \A j \in 1..Len(changelog) : changelog[j].created # MalformedCreated

\* C14: the timestamp used as the start of the waiting period is that of
\* the latest in time of the entries that hold a change of 'status' to the
\* waiting status; no earlier transition and no other change is selected.
C14_MostRecent ==
    (hist_pc = "done" /\ AllParse /\ WaitingEntries # {})
    => /\ \E j \in WaitingEntries : hist_found = strptime_naive(changelog[j].created)
       /\ \A j \in WaitingEntries :
             ~datetime_lt(hist_found, strptime_naive(changelog[j].created))

\* The iteration of find_old_waiting_tickets has evaluated the ticket of
\* SpecTicket on its changelog.
TimeEvaluated == scan_out # <<>> /\ scan_out[1].fetch = "ok"

\* C15 as claimed: a ticket whose history holds no transition to the
\* waiting status (an empty history included) is not eligible, and the
\* evaluation leaves a 'history unavailable' outcome for it: neither a
\* working-days line nor nothing at all.
C15_HistoryUnavailable ==
    (TimeEvaluated /\ WaitingEntries = {})
    => /\ ~InToClose(1)
       /\ scan_out[1].out # "days"
       /\ scan_out[1].out # "silent"

\* C15 as amended: such a ticket is not eligible and is never counted as 0
\* elapsed working days, and the evaluation leaves no outcome for it:
\* nothing is printed, nothing is appended to the list returned.
C15_SilentlySkipped ==
    (TimeEvaluated /\ WaitingEntries = {})
    => /\ ~InToClose(1)
       /\ tickets_to_close = <<>>
       /\ last_status_change = None
       /\ scan_out[1].found = None
       /\ scan_out[1].out = "silent"

\* C15 witness: the ticket, with an empty history and with now late enough
\* for any waiting period to exceed the threshold, has been evaluated and
\* the scan has returned an empty list.
C15_Witness ==
    /\ scan_pc = "done"
    /\ TimeEvaluated
    /\ changelog = <<>>
    /\ now.day = MaxDay
    /\ days_threshold = 1
    /\ tickets_to_close = <<>>
    /\ scan_out[1].out = "silent"

\* The iteration on ticket i hit a data problem: its fetch raised, or the
\* timestamp of its last transition did not parse.
DataProblem(i) == scan_out[i].out = "error"

\* Ticket i is eligible on its own data: its last transition to the waiting
\* status was found and parsed, and lies more than days_threshold working
\* days before now.
EligibleAlone(i) ==
    /\ scan_out[i].fetch = "ok"
    /\ scan_out[i].found # None
    /\ scan_out[i].found # Raise
    /\ calculate_working_days(scan_out[i].found, now) > days_threshold

\* C16: a data problem on one ticket skips only that ticket: the loop goes
\* on to every other ticket of the batch, and the list returned holds, in
\* search order, exactly the tickets eligible on their own data, as it
\* would without the failing ticket.
C16_TicketScoped ==
    /\ scan_pc = "done" => \A i \in 1..Len(tickets) : scan_out[i] # OutPending
    /\ scan_pc \in {"loop", "done"}
       => /\ \A i \in 1..(idx - 1) : DataProblem(i) => ~InToClose(tickets[i])
          /\ [k \in 1..Len(tickets_to_close) |-> tickets_to_close[k].ticket]
                = positions_from([i \in 1..(idx - 1) |-> EligibleAlone(i)], 1)

\* C16 witness: of two tickets the first had a timestamp that did not
\* parse, and the second was evaluated after it and returned as eligible.
C16_Witness ==
    /\ scan_pc = "done"
    /\ Len(tickets) = 2
    /\ scan_out[1].found = Raise
    /\ DataProblem(1)
    /\ EligibleAlone(2)
    /\ Len(tickets_to_close) = 1
    /\ tickets_to_close[1].ticket = 2

----------------------------------------------------------------------------
(* Claims about the operations issued against the tracker.                 *)

\* The operations issued so far that change a ticket.
MutationsIssued == { k \in 1..Len(calls) : calls[k].op \in MutatingOps }

\* C17: on a dry run, run issues no assign, no comment and no transition,
\* whatever tickets are eligible: close_ticket is never called.
C17_DryRunNoMutation ==
    dry_run => /\ MutationsIssued = {}
               /\ run_pc # "close"
               /\ closed_count = 0

\* C17 witness: a dry run has returned with an eligible ticket reported and
\* only a search and issue fetches issued.
C17_Witness ==
    /\ dry_run
    /\ run_pc = "done"
    /\ Len(tickets_to_close) >= 1
    /\ Len(calls) >= 2
    /\ MutationsIssued = {}

\* C18: producing verdicts never changes a ticket: find_old_waiting_tickets,
\* check_sla_breach, the closeable-ticket listing (and debug_sla) issue
\* only the search and issue fetches against the tracker, never an
\* assign, a comment, a transition or a create.
C18_ReadOnly ==
    /\ MutationsIssued = {}
    /\ \A k \in 1..Len(calls) : calls[k].op \in {"search_issues", "issue"}

\* C18 witness: the ticket was found eligible by find_old_waiting_tickets
\* and judged breached by check_sla_breach and by the listing, with one
\* search and three issue fetches issued and nothing else.
C18_Witness ==
    /\ scan_pc = "done"
    /\ InToClose(1)
    /\ CheckRan /\ check_res.ret
    /\ ListRan /\ list_res.closeable
    /\ Len(calls) = 4
    /\ MutationsIssued = {}

----------------------------------------------------------------------------
(* Claims about the two policies on one ticket (SpecTicket).               *)

\* The time-based verdict as a function of the status history, the current
\* time and the threshold.
TimeVerdict ==
    LET found == find_last_status_change(changelog, WaitingStatus)
    IN  /\ found # None
        /\ found # Raise
        /\ calculate_working_days(found, now) > days_threshold

\* The SLA-based verdict as a function of the ticket's attributes.
SlaVerdict ==
    Judgment({ i \in 1..Len(fields) : check_detects(fields[i]) })

\* C19: the two policies are independent: the time-based verdict is
\* determined by the status history, the current time and the threshold,
\* whatever the SLA fields are, and the SLA-based verdict of
\* check_sla_breach and of the listing is determined by the SLA fields,
\* whatever the history, the current time and the threshold are.
C19_Independent ==
    /\ TimeEvaluated => (InToClose(1) <=> TimeVerdict)
    /\ CheckRan => (check_res.ret <=> SlaVerdict)
    /\ ListRan => (list_res.closeable <=> SlaVerdict)

\* C19 witness: the same ticket is not eligible by time and closeable by
\* SLA.
C19_Witness ==
    /\ TimeEvaluated /\ ~InToClose(1)
    /\ WaitingEntries # {}
    /\ CheckRan /\ check_res.ret
    /\ ListRan /\ list_res.closeable

\* Ticket i of the batch has an outcome of its own: it is in the list
\* returned, or a line was printed for it.
HasOutcome(i) == InToClose(tickets[i]) \/ scan_out[i].out \in {"days", "error"}

\* The listing's only record of a ticket: its entry in closeable_tickets.
ListRecorded == list_res.closeable

----------------------------------------------------------------------------
(* close_ticket: the order of its steps and the value it returns.          *)

\* The place of an operation in the text of close_ticket.
OpRank(op) ==
    CASE op = "issue" -> 1
      [] op = "assign_issue" -> 2
      [] op = "comment" -> 3
      [] op = "transitions" -> 4
      [] op = "transition_issue" -> 5
      [] OTHER -> 0

OpsIssued == { calls[i].op : i \in 1..Len(calls) }

\* The ticket offers a transition with one of the four close names.
ClosingOffered ==
    \E k \in 1..Len(close_env.offered) :
        transition_name_lower(close_env.offered[k]) \in CloseTransitionNames

AssignFailed == close_env.assign = "raise"

CommentFailed == comment_text /\ close_env.comment # "ok"

CloseReturned == close_pc = "done" /\ close_res.issued # <<>>

\* C22: close_ticket issues its requests in the order fetch, assign,
\* comment, lookup of the transitions, transition; and when the assign or
\* the comment fails (an exception, or a status other than 200 and 201) the
\* transitions are still looked up, the close transition, if offered, is
\* still requested, and the value returned is that of the transition alone.
C22_AssignCommentTransition ==
    CloseReturned =>
        /\ \A i, j \in 1..Len(calls) :
              i < j => OpRank(calls[i].op) < OpRank(calls[j].op)
        /\ (close_env.fetch = "ok") =>
              /\ "assign_issue" \in OpsIssued
              /\ comment_text <=> ("comment" \in OpsIssued)
              /\ "transitions" \in OpsIssued
              /\ (close_env.transitions = "ok" /\ ClosingOffered) =>
                    /\ "transition_issue" \in OpsIssued
                    /\ close_res.ret <=> (close_env.transition = "ok")

\* C22 witness: the assign raised and the comment POST answered 400, and
\* close_ticket went on to the transition and returned True.
C22_Witness ==
    /\ CloseReturned
    /\ AssignFailed
    /\ comment_text
    /\ close_env.comment = "status_400"
    /\ "transition_issue" \in OpsIssued
    /\ close_res.ret

\* C23: close_ticket always returns a boolean; it returns True exactly when
\* the fetch and the lookup succeeded, a transition whose lower-cased name
\* is 'close', 'closed', 'close issue' or 'done' is offered, and the
\* transition call on the first such succeeded; when it returns False no
\* transition was applied to the ticket.
C23_TrueIffTransitioned ==
    CloseReturned =>
        /\ close_res.ret \in BOOLEAN
        /\ close_res.ret <=> /\ close_env.fetch = "ok"
                             /\ close_env.transitions = "ok"
                             /\ ClosingOffered
                             /\ close_env.transition = "ok"
        /\ close_res.ret =>
              /\ close_res.transition_id \in 1..Len(close_env.offered)
              /\ transition_name_lower(close_env.offered[close_res.transition_id])
                    \in CloseTransitionNames
              /\ \A k \in 1..(close_res.transition_id - 1) :
                    transition_name_lower(close_env.offered[k])
                        \notin CloseTransitionNames
        /\ ~close_res.ret => /\ ~close_res.applied
                             /\ (close_env.transition = "ok"
                                    => "transition_issue" \notin OpsIssued)

\* C23 witness: the second transition offered, "CLOSED", is taken and the
\* call returns True; the first has no close name.
C23_Witness ==
    /\ CloseReturned
    /\ close_env.offered = <<"Resolve Issue", "CLOSED">>
    /\ close_res.transition_id = 2
    /\ close_res.ret

----------------------------------------------------------------------------
(* run and main: the close loop, the weekend, the error ticket, and the    *)
(* two SLA evaluators side by side.                                        *)

\* The keys of the tickets find_old_waiting_tickets returned, in list order.
EligibleKeys == [i \in 1..Len(tickets_to_close) |-> tickets_to_close[i].ticket]

\* The keys close_ticket was called with, in call order.
ClosedKeys == [i \in 1..Len(closes) |-> closes[i].ticket]

ReturnedTrue == { i \in 1..Len(closes) : closes[i].ret }

\* A live run got past the report: it is in the close loop or returned
\* from it.
InCloseLoop == ~dry_run /\ run_pc = "close"

LiveRunReturned == ~dry_run /\ run_pc = "done" /\ scan_pc = "done"

\* C21: in a live run on a working day close_ticket is called once for each
\* ticket find_old_waiting_tickets returned, in list order, and for no
\* other ticket, whether the earlier calls returned True or False; the
\* closed count of the summary is the number of calls that returned True.
C21_OncePerEligibleInOrder ==
    /\ InCloseLoop =>
          /\ Len(closes) = close_idx - 1
          /\ ClosedKeys = SubSeq(EligibleKeys, 1, close_idx - 1)
          /\ closed_count = Cardinality(ReturnedTrue)
    /\ LiveRunReturned =>
          /\ ClosedKeys = EligibleKeys
          /\ closed_count = Cardinality(ReturnedTrue)
          /\ closed_count \in 0..Len(tickets_to_close)

\* C21 witness: a live run returned after two calls of close_ticket, the
\* first returning False and the second True.
C21_Witness ==
    /\ LiveRunReturned
    /\ Len(closes) = 2
    /\ ~closes[1].ret
    /\ closes[2].ret
    /\ closed_count = 1

Weekend == weekday(today) \in {5, 6}

RunLeftStart == run_pc # "start"

\* C25: a run that starts on a Saturday or a Sunday returns at once, dry or
\* live, with no request issued to the tracker (no search, no changelog
\* fetch, no close); a run that starts on Monday..Friday issues the search
\* first.
C25_WeekendNoRequest ==
    /\ Weekend => /\ calls = <<>>
                  /\ closes = <<>>
                  /\ scan_pc = "search"
                  /\ run_pc \in {"start", "done"}
    /\ (~Weekend /\ RunLeftStart /\ run_pc # "find") =>
          /\ calls # <<>>
          /\ calls[1].op = "search_issues"
    /\ (~Weekend /\ run_pc = "find" /\ scan_pc # "search") =>
          /\ calls # <<>>
          /\ calls[1].op = "search_issues"

\* C25 witness: a live run started on a Sunday and returned.
C25_Witness ==
    /\ weekday(today) = 6
    /\ ~dry_run
    /\ run_pc = "done"
    /\ calls = <<>>

ErrorTicketFiled == \E k \in 1..Len(calls) : calls[k].op = "create_issue"

MainExited == run_pc = "exited"

\* C24: after an exception of bot.run, main has filed an error ticket
\* (create_issue) if and only if dry_run is false, and exits with status 1.
C24_ErrorTicketIffLive ==
    MainExited => /\ ErrorTicketFiled <=> ~dry_run
                  /\ exit_status = 1

\* C26: the two SLA evaluators agree on every ticket: check_sla_breach
\* returns True exactly when the listing holds the ticket as closeable.
C26_EvaluatorsAgree ==
    (CheckRan /\ ListRan) => (check_res.ret <=> list_res.closeable)

\* C27: every ticket the run transitioned was still in the waiting status
\* when the transition was issued, whatever the customers did since the
\* search.
C27_StillWaitingAtClose ==
    \A i \in 1..Len(closes) : closes[i].applied => closes[i].waiting

====
